---- MODULE Spec2Model ----
(***************************************************************************)
(* The continuous discovery loop of m4_neo4j_accelerated_discovery.py:     *)
(* M4Neo4jDiscoveryEngine.run_continuous_discovery with the autoscaler     *)
(* (_monitor_and_adjust_resources), validation and storage                 *)
(* (_ultra_fast_validate_and_store, _save_discovery_to_file), the signal   *)
(* handler and the final shutdown, with main's construction of the         *)
(* configuration; and load_chunked_data of streamlit_app.py, the loader    *)
(* of the chunked dataset.                                                 *)
(***************************************************************************)
EXTENDS Integers, Sequences, FiniteSets, TLC

VARIABLES
    neo4j,                \* config.use_neo4j, NEO4J_AVAILABLE and the driver's constructor
    for_loop,             \* the for loop of _ultra_fast_validate_and_store, item by item
    total_memory_gb,      \* psutil.virtual_memory().total in GB (fixed per host)
    use_neo4j,            \* self.use_neo4j
    discovery_output_dir, \* TRUE iff the attribute self.discovery_output_dir exists
    primary_down,         \* environment: every neo4j store_discovery call raises
    running,              \* self.running
    sequences_per_cycle,  \* self.config.sequences_per_cycle
    batch_size,           \* self.config.batch_size
    memory_info,          \* the reading of the last _monitor_and_adjust_resources
    performance_metrics,  \* self.performance_metrics (the counters)
    pc,                   \* position of run_continuous_discovery
    batch_sequences,      \* the batch of the cycle in flight
    valid_discoveries,    \* len(valid_discoveries) returned to the loop
    outcomes,             \* per-record results of the last validate-and-store call
    store,                \* the two backends: ids issued, store calls, files written
    log,                  \* emitted log entries, by kind
    env,                  \* what the environment of the run may still do
    hist,                 \* observation of the run: iterations, signals, sleeps, ...
    dashboard             \* load_chunked_data of streamlit_app.py: its loop over the chunks

vars == <<neo4j, for_loop, total_memory_gb, use_neo4j, discovery_output_dir, primary_down, running,
          sequences_per_cycle, batch_size, memory_info, performance_metrics, pc,
          batch_sequences, valid_discoveries, outcomes, store, log, env, hist, dashboard>>

---------------------------------------------------------------------------
\* Bounds of the model.

\* iterations of the while loop that may start
MaxIter == 3
\* deliveries of SIGINT/SIGTERM
MaxSignals == 2
\* items of a run that deviate from the nominal item
MaxFaults == 1
\* cycle-level exceptions of a run
MaxRaises == 2
\* items of a cycle when the batch is followed item by item
MaxBatch == 3
\* file writes of a run that fall into the microsecond of the write before
MaxHeld == 1
\* iterations of the while loop when the progress reports are followed
MaxCycles == 11
\* iterations of the while loop when the autoscaler is followed
MaxDecisions == 20
\* chunk files listed in chunk_index.json
MaxChunks == 5

---------------------------------------------------------------------------
\* Program constants.

DefaultSequencesPerCycle == 32
DefaultBatchSize == 512
BeastModeMemoryGB == 100
BeastHighPercent == 90
BeastLowPercent == 70
BeastAvailableFloorGB == 40
BeastMinSequences == 256
BeastMaxSequences == 1024
StdHighPercent == 85
StdLowPercent == 60
StdMinBatch == 8
StdMaxBatch == 512
ProgressEvery == 5

\* logging levels of the standard library and the configured threshold
DEBUG == 10
INFO == 20
ERROR == 40
LogLevel == INFO

\* logger.<level>(...) produces an entry only at or above the configured level
Emitted(level) == level >= LogLevel

Max(a, b) == IF a >= b THEN a ELSE b
Min(a, b) == IF a <= b THEN a ELSE b

\* int(x * 0.9), int(x * 1.25), int(x * 0.8), int(x * 1.1) on non-negative ints
ScaleDown90(x) == (x * 9) \div 10
ScaleUp125(x) == (x * 125) \div 100
ScaleDown80(x) == (x * 8) \div 10
ScaleUp110(x) == (x * 11) \div 10

---------------------------------------------------------------------------
\* Work items and what the collaborators do with them.  An item carries what
\* decides its path through _ultra_fast_validate_and_store: its length, and
\* the outcome of each external call made for it.

Calls == {"ok", "raise"}

Items == [score  : Calls,    \* _simplified_metal_analysis on this sequence
          len_ok : BOOLEAN,  \* 15 <= len(sequence) <= 100
          ctx    : Calls,    \* _generate_genetics_context
          primary: Calls,    \* neo4j_engine.store_discovery
          post   : Calls,    \* the steps after a successful store call or write
          write1 : Calls,    \* open/json.dump of the first file write
          write2 : Calls]    \* open/json.dump of the write in the handler

\* the item for which nothing goes wrong: when the primary is down for the
\* whole run, its store call raises for every item
NominalItem ==
    [score |-> "ok", len_ok |-> TRUE, ctx |-> "ok",
     primary |-> IF primary_down THEN "raise" ELSE "ok",
     post |-> "ok", write1 |-> "ok", write2 |-> "ok"]

\* the ways an item deviates from the nominal one
FaultKinds ==
    {"scoring_raises", "bad_length", "context_raises", "primary_raises", "post_store_raises",
     "write_raises", "both_writes_raise"}

ItemOf(kind) ==
    CASE kind = "scoring_raises"    -> [NominalItem EXCEPT !.score = "raise"]
      [] kind = "bad_length"        -> [NominalItem EXCEPT !.len_ok = FALSE]
      [] kind = "context_raises"    -> [NominalItem EXCEPT !.ctx = "raise"]
      [] kind = "primary_raises"    -> [NominalItem EXCEPT !.primary = "raise"]
      [] kind = "post_store_raises" -> [NominalItem EXCEPT !.post = "raise"]
      [] kind = "write_raises"      -> [NominalItem EXCEPT !.write1 = "raise"]
      [] kind = "both_writes_raise" ->
             [NominalItem EXCEPT !.write1 = "raise", !.write2 = "raise"]
      [] OTHER -> NominalItem

\* _save_discovery_to_file: raises AttributeError when the attribute
\* discovery_output_dir was never set, else the outcome of the file write
save_discovery_to_file(dir, w) == IF ~dir THEN "raise" ELSE w

\* The files on disk after an item's successful writes.  The name of a file
\* is the time of its write to the microsecond and the file is opened with
\* 'w': a write in the microsecond of the write before it replaces that file
\* (lines 509-512)
FilesAfter(files, writes, held) == files + writes - held

\* how many of an item's successful writes may fall into the microsecond of
\* the write before them: the first write of the process has none before it
HeldWrites(writes, earlier, budget) ==
    0..Min(budget, IF earlier = 0 THEN Max(0, writes - 1) ELSE writes)

\* individual_results[i] as the scorer computed it   (lines 229-235)
IndividualResult(i) ==
    [for_item |-> i, vqbit_score |-> "computed", energy |-> "computed",
     virtue_scores |-> "computed", vqbit_states |-> "computed"]

\* the values taken when there is no individual result   (lines 444-448)
DefaultResult ==
    [for_item |-> 0, vqbit_score |-> "0.5", energy |-> "-300.0",
     virtue_scores |-> "all 0.0", vqbit_states |-> "[]"]

\* an item that fails the length test is paired with nothing
NoResult ==
    [for_item |-> 0, vqbit_score |-> "none", energy |-> "none",
     virtue_scores |-> "none", vqbit_states |-> "none"]

\* variant: an item without a result takes the last result of the list
PairedResultLast(index, results) ==
    IF results = 0 THEN DefaultResult ELSE IndividualResult(Min(index, results))

\* if i < len(individual_results): ... else: ...   (lines 434-448); the
\* items are counted from 1 here
PairedResult(index, results) ==
    IF index <= results THEN IndividualResult(index) ELSE DefaultResult

\* the result of handling one item that nothing was done for
NoOutcome(item) ==
    [item |-> item, handed |-> FALSE, store_calls |-> 0, primary_id |-> 0,
     write_calls |-> 0, writes |-> 0, appended |-> 0,
     storage_error |-> 0, debug_calls |-> 0, lost_log |-> 0, calls |-> <<>>]

\* except Exception as e: logger.debug(...); continue   (lines 498-500)
ItemHandler(o) ==
    [o EXCEPT !.debug_calls = 1,
              !.lost_log = IF Emitted(DEBUG) THEN 1 ELSE 0]

\* variant: the handler tries the primary once more before the file
StorageHandlerRetries(o, neo, dir) ==
    LET logged == [o EXCEPT !.storage_error = IF Emitted(ERROR) THEN 1 ELSE 0,
                            !.store_calls = IF neo THEN @ + 1 ELSE @,
                            !.write_calls = @ + 1,
                            !.calls = IF neo THEN @ \o <<"primary", "file">>
                                             ELSE Append(@, "file")]
    IN  IF save_discovery_to_file(dir, o.item.write2) = "ok"
        THEN [logged EXCEPT !.writes = @ + 1, !.appended = 1]
        ELSE ItemHandler(logged)

\* except Exception as storage_error: print, logger.error, then
\* _save_discovery_to_file; valid_discoveries.append   (lines 490-496)
StorageHandler(o, neo, dir) ==
    LET logged == [o EXCEPT !.storage_error = IF Emitted(ERROR) THEN 1 ELSE 0,
                            !.write_calls = @ + 1,
                            !.calls = Append(@, "file")]
    IN  IF save_discovery_to_file(dir, o.item.write2) = "ok"
        THEN [logged EXCEPT !.writes = @ + 1, !.appended = 1]
        ELSE ItemHandler(logged)

\* the storage block of one qualifying record   (lines 474-496)
StoreRecord(item, neo, dir) ==
    LET o == [NoOutcome(item) EXCEPT !.handed = TRUE]
    IN  IF neo
        THEN LET called == [o EXCEPT !.store_calls = 1, !.calls = <<"primary">>]
             IN  IF item.primary = "raise"
                 THEN StorageHandler(called, neo, dir)
                 ELSE LET stored == [called EXCEPT !.primary_id = 1]
                      IN  IF item.post = "raise"
                          THEN StorageHandler(stored, neo, dir)
                          ELSE [stored EXCEPT !.appended = 1]
        ELSE LET tried == [o EXCEPT !.write_calls = 1, !.calls = <<"file">>]
             IN  IF save_discovery_to_file(dir, item.write1) = "ok"
                 THEN LET written == [tried EXCEPT !.writes = 1]
                      IN  IF item.post = "raise"
                          THEN StorageHandler(written, neo, dir)
                          ELSE [written EXCEPT !.appended = 1]
                 ELSE StorageHandler(tried, neo, dir)

\* variant: the length of the sequence is not tested
ValidateAndStoreAny(item, neo, dir) ==
    IF item.ctx = "raise"
    THEN ItemHandler(NoOutcome(item))
    ELSE StoreRecord(item, neo, dir)

\* one pass of the for loop of _ultra_fast_validate_and_store   (lines 411-500)
ValidateAndStoreOne(item, neo, dir) ==
    IF ~item.len_ok
    THEN NoOutcome(item)
    ELSE IF item.ctx = "raise"
         THEN ItemHandler(NoOutcome(item))
         ELSE StoreRecord(item, neo, dir)

---------------------------------------------------------------------------
\* The batch of a cycle: n items, all nominal but the listed ones.

\* A batch is [n, faults]: faults[k] of its n items deviate in the way k.

RECURSIVE SumOver(_, _, _, _, _)
SumOver(S, faults, field, neo, dir) ==
    IF S = {} THEN 0
    ELSE LET k == CHOOSE x \in S : TRUE
         IN  faults[k] * ValidateAndStoreOne(ItemOf(k), neo, dir)[field]
             + SumOver(S \ {k}, faults, field, neo, dir)

RECURSIVE Count(_, _)
Count(S, faults) ==
    IF S = {} THEN 0
    ELSE LET k == CHOOSE x \in S : TRUE
         IN  faults[k] + Count(S \ {k}, faults)

\* the number of faulty items of a batch
NumFaults(faults) == Count(DOMAIN faults, faults)

\* the sum of one counter over all items of the batch
BatchTotal(b, field, neo, dir) ==
    (b.n - NumFaults(b.faults)) * ValidateAndStoreOne(NominalItem, neo, dir)[field]
    + SumOver(DOMAIN b.faults, b.faults, field, neo, dir)

\* the per-item results of the batch, one per kind of item in it
BatchOutcomes(b, neo, dir) ==
    { ValidateAndStoreOne(ItemOf(k), neo, dir) :
          k \in {x \in DOMAIN b.faults : b.faults[x] > 0} }
    \cup (IF b.n > NumFaults(b.faults)
          THEN {ValidateAndStoreOne(NominalItem, neo, dir)} ELSE {})

NoFaults == [k \in FaultKinds |-> 0]

EmptyBatch == [n |-> 0, faults |-> NoFaults]

\* the ways to make at most k items of a batch faulty
FaultChoices(k) ==
    { c \in [FaultKinds -> 0..k] : NumFaults(c) <= k }

---------------------------------------------------------------------------
\* Memory readings of psutil.virtual_memory(): percent used, available GB.

Percents == {50, 65, 80, 88, 95}
AvailableGB == {30, 50}
HostMemoryGB == {16, 128}

\* before the first reading is taken
NoReading ==
    [percent |-> 0, available |-> 0, sequences_before |-> 0, batch_before |-> 0,
     logged |-> FALSE]

\* the readings psutil may return
Readings == [percent : Percents, available : AvailableGB]

\* a reading inside the dead band of both scaling branches
SteadyReadings == {r \in Readings : r.percent = 80 /\ r.available = 50}

\* hosts on which the run is followed when memory stays in the dead band of
\* both scaling branches, where the size of the host decides nothing
SmallHosts == {h \in HostMemoryGB : h < BeastModeMemoryGB}

\* The environment of a run: the faulty items, cycle-level exceptions and
\* signals it may still produce, the memory readings it shows, the hosts it
\* runs on, the file writes that may still fall into the microsecond of the
\* write before, the iterations followed, and whether torch reports MPS.  A run is either disturbed by faulty items, exceptions and
\* signals under steady memory pressure, or undisturbed under changing
\* memory pressure.
Environments ==
    { [faults |-> MaxFaults, raises |-> MaxRaises, signals |-> MaxSignals,
       readings |-> SteadyReadings, hosts |-> SmallHosts,
       held |-> 0, iterations |-> MaxIter, accelerator |-> TRUE],
      [faults |-> 0, raises |-> 0, signals |-> 0, readings |-> Readings,
       hosts |-> HostMemoryGB,
       held |-> 0, iterations |-> MaxIter, accelerator |-> TRUE] }

\* sequences_per_cycle values a configuration may start with
InitialSequences == {5, 10, DefaultSequencesPerCycle}

\* variant: the scale-up branch does not ask for available memory
NewSequencesNoFloor(percent, available, cur) ==
    IF percent > BeastHighPercent
    THEN Max(BeastMinSequences, ScaleDown90(cur))
    ELSE IF percent < BeastLowPercent
         THEN Min(BeastMaxSequences, ScaleUp125(cur))
         ELSE cur

\* the new sequences_per_cycle of the branch total_memory_gb >= 100
NewSequences(percent, available, cur) ==
    IF percent > BeastHighPercent
    THEN Max(BeastMinSequences, ScaleDown90(cur))
    ELSE IF percent < BeastLowPercent /\ available > BeastAvailableFloorGB
         THEN Min(BeastMaxSequences, ScaleUp125(cur))
         ELSE cur

\* the new batch_size of the branch total_memory_gb < 100
NewBatchSize(percent, cur) ==
    IF percent > StdHighPercent
    THEN Max(StdMinBatch, ScaleDown80(cur))
    ELSE IF percent < StdLowPercent
         THEN Min(StdMaxBatch, ScaleUp110(cur))
         ELSE cur

\* config.auto_scale
auto_scale == TRUE

\* the bounds the autoscaler clamps to on this host
min_items == IF total_memory_gb >= BeastModeMemoryGB THEN BeastMinSequences ELSE StdMinBatch
max_items == IF total_memory_gb >= BeastModeMemoryGB THEN BeastMaxSequences ELSE StdMaxBatch

\* the high-pressure threshold of the branch the host takes
high_pressure_threshold ==
    IF total_memory_gb >= BeastModeMemoryGB THEN BeastHighPercent ELSE StdHighPercent

\* the low-pressure threshold of the branch the host takes
low_pressure_threshold ==
    IF total_memory_gb >= BeastModeMemoryGB THEN BeastLowPercent ELSE StdLowPercent

\* the scale-up branch asks for available memory above the floor only on
\* hosts of 100 GB and more   (lines 534, 547)
available_above_floor(available) ==
    total_memory_gb >= BeastModeMemoryGB => available > BeastAvailableFloorGB

---------------------------------------------------------------------------
\* Construction: M4Neo4jConfig() and M4Neo4jDiscoveryEngine.__init__.

\* The ways the primary backend presents itself at construction: connected,
\* the constructor raising, disabled by the configuration, the driver missing.
Constructions ==
    { [configured |-> TRUE, available |-> TRUE, constructor |-> "ok"],
      [configured |-> TRUE, available |-> TRUE, constructor |-> "raise"],
      [configured |-> FALSE, available |-> TRUE, constructor |-> "not_called"],
      [configured |-> TRUE, available |-> FALSE, constructor |-> "not_called"] }

\* variant: use_neo4j follows the configuration, whatever the constructor did
UseNeo4jConfigured(c) == c.configured /\ c.available

\* self.use_neo4j as __init__ sets it   (lines 266-286)
UseNeo4j(c) == c.configured /\ c.available /\ c.constructor = "ok"

\* before _ultra_fast_validate_and_store is entered
NoLoop == [sequences |-> <<>>, i |-> 0, events |-> <<>>, results |-> 0, passes |-> <<>>]

\* variant: the fallback directory is created whatever the backend
OutputDirAlways(neo) == TRUE

\* the fallback directory is created only when the primary is not in use
\* (lines 309-312)
OutputDirCreated(neo) == ~neo

\* before load_chunked_data is called
NoDashboard ==
    [pc |-> "idle", chunk_files |-> <<>>, next |-> 1, all_proteins |-> <<>>,
     chunks_loaded |-> 0, warnings |-> 0, progress |-> 0, messages |-> {}]

\* the engine at the given position of main
EngineInit(position, environments, constructions, sequences) ==
    /\ env \in environments
    /\ neo4j \in constructions
    /\ for_loop = NoLoop
    /\ total_memory_gb \in env.hosts
    /\ use_neo4j = UseNeo4j(neo4j)
    /\ discovery_output_dir = OutputDirCreated(use_neo4j)
    /\ primary_down \in (IF use_neo4j THEN BOOLEAN ELSE {FALSE})
    /\ running = TRUE
    /\ sequences_per_cycle \in sequences
    /\ batch_size = DefaultBatchSize
    /\ memory_info = NoReading
    /\ performance_metrics =
         [sequences_processed |-> 0, valid_discoveries_found |-> 0,
          cycles_completed |-> 0]
    /\ pc = position
    /\ batch_sequences = EmptyBatch
    /\ valid_discoveries = 0
    /\ outcomes = {}
    /\ store = [primary_ids |-> 0, store_calls |-> 0, writes |-> 0,
                stats_calls |-> 0, closed |-> 0, files |-> 0, overwritten |-> 0]
    /\ log = [cycle_error |-> 0, storage_error |-> 0, lost |-> 0, signal |-> 0,
              scale |-> 0, progress |-> 0, reports |-> 0]
    /\ hist = [iterations |-> 0, signals |-> 0, starts_after_signal |-> 0,
               sleeps |-> 0, loop_exits |-> 0, signalled_cycle |-> "none", exception |-> "none",
               found_before |-> 0, decisions |-> 0,
               initial_sequences |-> sequences_per_cycle]

\* the engine constructed and run_continuous_discovery entered
InitIn(environments, constructions, sequences) ==
    /\ EngineInit("while", environments, constructions, sequences)
    /\ dashboard = NoDashboard

\* the run state of the spec, read off the flag and the position
RunState ==
    IF pc \in {"report", "close", "done"} THEN "Stopped"
    ELSE IF running THEN "Running" ELSE "Draining"

Init == InitIn(Environments, Constructions, InitialSequences)

InFlight == pc \in {"monitor", "generate", "analyze", "store", "fold"}

---------------------------------------------------------------------------
\* _signal_handler   (lines 319-322)

\* signal.signal(SIGINT/SIGTERM, self._signal_handler): the handler is
\* installed by __init__ and lives as long as the process   (lines 305-307)
HandlerInstalled == pc \notin {"main", "halted"}

\* variant: the handler runs the shutdown report itself
signal_handler_reports ==
    /\ HandlerInstalled
    /\ env.signals > 0
    /\ env' = [env EXCEPT !.signals = @ - 1]
    /\ running' = FALSE
    /\ log' = [log EXCEPT !.signal = @ + 1, !.reports = @ + 1]
    /\ hist' = [hist EXCEPT !.signals = @ + 1,
                            !.signalled_cycle = IF hist.signals = 0 /\ InFlight
                                                THEN pc ELSE @]
    /\ UNCHANGED <<dashboard, neo4j, for_loop, memory_info, total_memory_gb, use_neo4j, discovery_output_dir, primary_down,
                   sequences_per_cycle, batch_size, performance_metrics, pc,
                   batch_sequences, valid_discoveries, outcomes, store>>

signal_handler ==
    /\ HandlerInstalled
    /\ env.signals > 0
    /\ env' = [env EXCEPT !.signals = @ - 1]
    /\ running' = FALSE
    /\ log' = [log EXCEPT !.signal = IF Emitted(INFO) THEN @ + 1 ELSE @]
    /\ hist' = [hist EXCEPT !.signals = @ + 1,
                            !.signalled_cycle = IF hist.signals = 0 /\ InFlight
                                                THEN pc ELSE @]
    /\ UNCHANGED <<dashboard, neo4j, for_loop, memory_info, total_memory_gb, use_neo4j, discovery_output_dir, primary_down,
                   sequences_per_cycle, batch_size, performance_metrics, pc,
                   batch_sequences, valid_discoveries, outcomes, store>>

---------------------------------------------------------------------------
\* run_continuous_discovery   (lines 333-401)

\* variant: the loop does not read the flag
WhileAlways == TRUE

\* while self.running
WhileCondition == running

cycle_start ==
    /\ pc = "while"
    /\ WhileCondition
    /\ hist.iterations < env.iterations
    /\ pc' = "monitor"
    /\ batch_sequences' = EmptyBatch
    /\ for_loop' = NoLoop
    /\ valid_discoveries' = 0
    /\ outcomes' = {}
    /\ hist' = [hist EXCEPT !.iterations = @ + 1,
                            !.found_before = performance_metrics.valid_discoveries_found,
                            !.starts_after_signal =
                                IF hist.signals > 0 THEN @ + 1 ELSE @]
    /\ UNCHANGED <<dashboard, neo4j, env, memory_info, total_memory_gb, use_neo4j, discovery_output_dir, primary_down,
                   running, sequences_per_cycle, batch_size, performance_metrics,
                   store, log>>

loop_exit ==
    /\ pc = "while"
    /\ ~WhileCondition
    /\ pc' = "report"
    /\ hist' = [hist EXCEPT !.loop_exits = @ + 1]
    /\ UNCHANGED <<dashboard, neo4j, for_loop, env, memory_info, total_memory_gb, use_neo4j, discovery_output_dir, primary_down,
                   running, sequences_per_cycle, batch_size, performance_metrics,
                   batch_sequences, valid_discoveries, outcomes, store, log>>

\* _monitor_and_adjust_resources   (lines 515-551)
monitor_and_adjust_resources ==
    /\ pc = "monitor"
    /\ \E reading \in env.readings :
         LET percent == reading.percent
             available == reading.available
             ns == IF auto_scale /\ total_memory_gb >= BeastModeMemoryGB
                   THEN NewSequences(percent, available, sequences_per_cycle)
                   ELSE sequences_per_cycle
             nb == IF auto_scale /\ total_memory_gb < BeastModeMemoryGB
                   THEN NewBatchSize(percent, batch_size)
                   ELSE batch_size
         IN  /\ sequences_per_cycle' = ns
             /\ batch_size' = nb
             /\ memory_info' = [percent |-> percent, available |-> available,
                                sequences_before |-> sequences_per_cycle,
                                batch_before |-> batch_size,
                                logged |-> ns # sequences_per_cycle \/ nb # batch_size]
             /\ log' = [log EXCEPT !.scale =
                          IF ns # sequences_per_cycle \/ nb # batch_size
                          THEN @ + 1 ELSE @]
    /\ hist' = [hist EXCEPT !.decisions = @ + 1]
    /\ pc' = "generate"
    /\ UNCHANGED <<dashboard, neo4j, for_loop, env, total_memory_gb, use_neo4j, discovery_output_dir, primary_down,
                   running, performance_metrics, batch_sequences,
                   valid_discoveries, outcomes, store>>

\* variant: current_batch_size was read before the decision
generate_batch_stale ==
    /\ pc = "generate"
    /\ \E fs \in FaultChoices(env.faults) :
         /\ NumFaults(fs) <= memory_info.sequences_before
         /\ batch_sequences' = [n |-> memory_info.sequences_before, faults |-> fs]
         /\ env' = [env EXCEPT !.faults = @ - NumFaults(fs)]
    /\ pc' = "analyze"
    /\ UNCHANGED <<dashboard, neo4j, for_loop, memory_info, total_memory_gb, use_neo4j, discovery_output_dir, primary_down,
                   running, sequences_per_cycle, batch_size, performance_metrics,
                   valid_discoveries, outcomes, store, log, hist>>

\* the for loop drawing current_batch_size sequences   (lines 344-350)
generate_batch ==
    /\ pc = "generate"
    /\ \E fs \in FaultChoices(env.faults) :
         /\ NumFaults(fs) <= sequences_per_cycle
         /\ batch_sequences' = [n |-> sequences_per_cycle, faults |-> fs]
         /\ env' = [env EXCEPT !.faults = @ - NumFaults(fs)]
    /\ pc' = "analyze"
    /\ UNCHANGED <<dashboard, neo4j, for_loop, memory_info, total_memory_gb, use_neo4j, discovery_output_dir, primary_down,
                   running, sequences_per_cycle, batch_size, performance_metrics,
                   valid_discoveries, outcomes, store, log, hist>>

\* metal_vqbit.massive_batch_analysis: individual_results holds one result
\* per sequence   (lines 185-244, 352-357)
metal_analysis ==
    /\ pc = "analyze"
    /\ batch_sequences.faults["scoring_raises"] = 0
    /\ for_loop' = [for_loop EXCEPT !.results = Len(for_loop.sequences)]
    /\ pc' = "store"
    /\ UNCHANGED <<dashboard, neo4j, env, memory_info, total_memory_gb, use_neo4j, discovery_output_dir, primary_down,
                   running, sequences_per_cycle, batch_size, performance_metrics,
                   batch_sequences, valid_discoveries, outcomes, store, log, hist>>

\* _ultra_fast_validate_and_store   (lines 403-505)
ultra_fast_validate_and_store ==
    /\ pc = "store"
    /\ LET T(f) == BatchTotal(batch_sequences, f, use_neo4j, discovery_output_dir)
       IN  /\ valid_discoveries' = T("appended")
           /\ store' = [store EXCEPT !.primary_ids = @ + T("primary_id"),
                                     !.store_calls = @ + T("store_calls"),
                                     !.writes = @ + T("writes"),
                                     !.files = FilesAfter(@, T("writes"), 0)]
           /\ log' = [log EXCEPT !.storage_error = @ + T("storage_error"),
                                 !.lost = @ + T("lost_log")]
    /\ outcomes' = BatchOutcomes(batch_sequences, use_neo4j, discovery_output_dir)
    /\ hist' = [hist EXCEPT !.signalled_cycle =
                                IF @ \in {"monitor", "generate", "analyze", "store"}
                                THEN "stored" ELSE @]
    /\ pc' = "fold"
    /\ UNCHANGED <<dashboard, neo4j, for_loop, env, memory_info, total_memory_gb, use_neo4j, discovery_output_dir, primary_down,
                   running, sequences_per_cycle, batch_size, performance_metrics,
                   batch_sequences>>

\* variant: the multiple of 5 is tested before the cycle is counted
update_metrics_early ==
    /\ pc = "fold"
    /\ performance_metrics' =
         [performance_metrics EXCEPT
            !.sequences_processed = @ + batch_sequences.n,
            !.valid_discoveries_found = @ + valid_discoveries,
            !.cycles_completed = @ + 1]
    /\ LET progress == performance_metrics.cycles_completed % ProgressEvery = 0
       IN  /\ log' = [log EXCEPT !.progress =
                        IF progress /\ Emitted(INFO) THEN @ + 1 ELSE @]
           /\ store' = [store EXCEPT !.stats_calls =
                          IF progress /\ use_neo4j THEN @ + 1 ELSE @]
    /\ hist' = [hist EXCEPT !.signalled_cycle =
                                IF @ \in {"stored", "fold"} THEN "folded" ELSE @]
    /\ pc' = "while"
    /\ UNCHANGED <<dashboard, neo4j, for_loop, env, memory_info, total_memory_gb, use_neo4j, discovery_output_dir, primary_down,
                   running, sequences_per_cycle, batch_size, batch_sequences,
                   valid_discoveries, outcomes>>

\* the metrics update and the progress log   (lines 366-391)
update_metrics ==
    /\ pc = "fold"
    /\ performance_metrics' =
         [performance_metrics EXCEPT
            !.sequences_processed = @ + batch_sequences.n,
            !.valid_discoveries_found = @ + valid_discoveries,
            !.cycles_completed = @ + 1]
    /\ LET progress == performance_metrics'.cycles_completed % ProgressEvery = 0
       IN  /\ log' = [log EXCEPT !.progress =
                        IF progress /\ Emitted(INFO) THEN @ + 1 ELSE @]
           /\ store' = [store EXCEPT !.stats_calls =
                          IF progress /\ use_neo4j THEN @ + 1 ELSE @]
    /\ hist' = [hist EXCEPT !.signalled_cycle =
                                IF @ \in {"stored", "fold"} THEN "folded" ELSE @]
    /\ pc' = "while"
    /\ UNCHANGED <<dashboard, neo4j, for_loop, env, memory_info, total_memory_gb, use_neo4j, discovery_output_dir, primary_down,
                   running, sequences_per_cycle, batch_size, batch_sequences,
                   valid_discoveries, outcomes>>

\* the loop of _simplified_metal_analysis has no handler of its own: an item
\* on which it raises makes massive_batch_analysis raise   (lines 193-236)
ScoringFails(what) ==
    what = "scorer" /\ batch_sequences.faults["scoring_raises"] > 0

\* variant: what the cycle had drawn is counted before the handler runs
RaiseCounted(what) ==
    /\ ScoringFails(what) \/ env.raises > 0
    /\ env' = IF ScoringFails(what) THEN env ELSE [env EXCEPT !.raises = @ - 1]
    /\ pc' = "except"
    /\ hist' = [hist EXCEPT !.signalled_cycle = IF @ # "none" THEN "raised" ELSE @,
                            !.exception = what,
                            !.decisions = IF what = "resource_query" THEN @ + 1 ELSE @]
    /\ performance_metrics' =
         [performance_metrics EXCEPT !.valid_discoveries_found = @ + batch_sequences.n]
    /\ UNCHANGED <<dashboard, neo4j, for_loop, memory_info, total_memory_gb, use_neo4j, discovery_output_dir, primary_down,
                   running, sequences_per_cycle, batch_size,
                   batch_sequences, valid_discoveries, outcomes, store, log>>

\* an exception leaves the try block for the handler
Raise(what) ==
    /\ ScoringFails(what) \/ env.raises > 0
    /\ env' = IF ScoringFails(what) THEN env ELSE [env EXCEPT !.raises = @ - 1]
    /\ pc' = "except"
    /\ hist' = [hist EXCEPT !.signalled_cycle = IF @ # "none" THEN "raised" ELSE @,
                            !.exception = what,
                            !.decisions = IF what = "resource_query" THEN @ + 1 ELSE @]
    /\ UNCHANGED <<dashboard, neo4j, for_loop, memory_info, total_memory_gb, use_neo4j, discovery_output_dir, primary_down,
                   running, sequences_per_cycle, batch_size, performance_metrics,
                   batch_sequences, valid_discoveries, outcomes, store, log>>

\* psutil.virtual_memory() raises
resource_query_raises == pc = "monitor" /\ Raise("resource_query")

\* sequence_generator.generate_realistic_sequence() raises
producer_raises == pc = "generate" /\ Raise("producer")

\* massive_batch_analysis raises: on an item of the batch, or as a whole
scorer_raises == pc = "analyze" /\ Raise("scorer")

\* variant: the handler re-raises, leaving run_continuous_discovery
cycle_except_reraises ==
    /\ pc = "except"
    /\ log' = [log EXCEPT !.cycle_error = @ + 1]
    /\ pc' = "done"
    /\ UNCHANGED <<dashboard, neo4j, for_loop, env, memory_info, total_memory_gb, use_neo4j, discovery_output_dir, primary_down,
                   running, sequences_per_cycle, batch_size, performance_metrics,
                   batch_sequences, valid_discoveries, outcomes, store, hist>>

\* variant: the handler stops the loop
cycle_except_stops ==
    /\ pc = "except"
    /\ log' = [log EXCEPT !.cycle_error = @ + 1]
    /\ hist' = [hist EXCEPT !.sleeps = @ + 1]
    /\ running' = FALSE
    /\ pc' = "while"
    /\ UNCHANGED <<dashboard, neo4j, for_loop, env, memory_info, total_memory_gb, use_neo4j, discovery_output_dir, primary_down,
                   sequences_per_cycle, batch_size, performance_metrics,
                   batch_sequences, valid_discoveries, outcomes, store>>

\* variant: the handler takes the failed cycle back out of the counters
cycle_except_rolls_back ==
    /\ pc = "except"
    /\ log' = [log EXCEPT !.cycle_error = @ + 1]
    /\ hist' = [hist EXCEPT !.sleeps = @ + 1]
    /\ performance_metrics' =
         [performance_metrics EXCEPT
            !.cycles_completed = @ - 1,
            !.sequences_processed = @ - batch_sequences.n]
    /\ pc' = "while"
    /\ UNCHANGED <<dashboard, neo4j, for_loop, env, memory_info, total_memory_gb, use_neo4j, discovery_output_dir, primary_down,
                   running, sequences_per_cycle, batch_size,
                   batch_sequences, valid_discoveries, outcomes, store>>

\* variant: the handler sets the run flag again
cycle_except_resumes ==
    /\ pc = "except"
    /\ log' = [log EXCEPT !.cycle_error = @ + 1]
    /\ hist' = [hist EXCEPT !.sleeps = @ + 1]
    /\ running' = TRUE
    /\ pc' = "while"
    /\ UNCHANGED <<dashboard, neo4j, for_loop, env, memory_info, total_memory_gb, use_neo4j, discovery_output_dir, primary_down,
                   sequences_per_cycle, batch_size, performance_metrics,
                   batch_sequences, valid_discoveries, outcomes, store>>

\* except Exception as e: print, logger.error, time.sleep(0.1)   (lines 393-396)
cycle_except ==
    /\ pc = "except"
    /\ log' = [log EXCEPT !.cycle_error = IF Emitted(ERROR) THEN @ + 1 ELSE @]
    /\ hist' = [hist EXCEPT !.sleeps = @ + 1]
    /\ pc' = "while"
    /\ UNCHANGED <<dashboard, neo4j, for_loop, env, memory_info, total_memory_gb, use_neo4j, discovery_output_dir, primary_down,
                   running, sequences_per_cycle, batch_size, performance_metrics,
                   batch_sequences, valid_discoveries, outcomes, store>>

\* _generate_shutdown_report   (lines 578-600)
generate_shutdown_report ==
    /\ pc = "report"
    /\ log' = [log EXCEPT !.reports = IF Emitted(INFO) THEN @ + 1 ELSE @]
    /\ store' = [store EXCEPT !.stats_calls = IF use_neo4j THEN @ + 1 ELSE @]
    /\ pc' = "close"
    /\ UNCHANGED <<dashboard, neo4j, for_loop, env, memory_info, total_memory_gb, use_neo4j, discovery_output_dir, primary_down,
                   running, sequences_per_cycle, batch_size, performance_metrics,
                   batch_sequences, valid_discoveries, outcomes, hist>>

\* if self.use_neo4j: self.neo4j_engine.close()   (lines 400-401)
close_primary ==
    /\ pc = "close"
    /\ store' = [store EXCEPT !.closed = IF use_neo4j THEN @ + 1 ELSE @]
    /\ pc' = "done"
    /\ UNCHANGED <<dashboard, neo4j, for_loop, env, memory_info, total_memory_gb, use_neo4j, discovery_output_dir, primary_down,
                   running, sequences_per_cycle, batch_size, performance_metrics,
                   batch_sequences, valid_discoveries, outcomes, log, hist>>

---------------------------------------------------------------------------
\* The same loop followed item by item: the batch is an explicit sequence
\* and _ultra_fast_validate_and_store takes one pass of its for loop per step.

\* the sequences a batch may hold, by the way they deviate
SequenceKinds == FaultKinds \cup {"nominal"}

\* how many sequences of each deviating kind the batch holds
FaultsIn(seq) ==
    [k \in FaultKinds |-> Cardinality({j \in DOMAIN seq : seq[j] = k})]

\* the for loop appending generate_realistic_sequence()   (lines 346-349)
generate_sequences ==
    /\ pc = "generate"
    /\ \E seq \in [1..sequences_per_cycle -> SequenceKinds] :
         /\ NumFaults(FaultsIn(seq)) <= env.faults
         /\ batch_sequences' = [n |-> Len(seq), faults |-> FaultsIn(seq)]
         /\ for_loop' = [NoLoop EXCEPT !.sequences = seq]
         /\ env' = [env EXCEPT !.faults = @ - NumFaults(FaultsIn(seq))]
    /\ pc' = "analyze"
    /\ UNCHANGED <<dashboard, neo4j, memory_info, total_memory_gb, use_neo4j, discovery_output_dir, primary_down,
                   running, sequences_per_cycle, batch_size, performance_metrics,
                   valid_discoveries, outcomes, store, log, hist>>

\* variant: the batch is walked from its end
ReversedIndex(loop) == Len(loop.sequences) - loop.i

\* for i, sequence in enumerate(sequences)   (line 411)
EnumerateIndex(loop) == loop.i + 1

\* the storage calls of one pass, as made, tagged with the index of the item
CallsMade(o, index) ==
    [j \in 1..Len(o.calls) |-> [record |-> index, call |-> o.calls[j]]]

\* variant: a failed store call switches the primary off
validate_and_store_item_breaker ==
    /\ pc = "store"
    /\ for_loop.i < Len(for_loop.sequences)
    /\ LET index == EnumerateIndex(for_loop)
           o == ValidateAndStoreOne(ItemOf(for_loop.sequences[index]),
                                    use_neo4j, discovery_output_dir)
           result == IF o.item.len_ok
                     THEN PairedResult(index, for_loop.results) ELSE NoResult
       IN  /\ valid_discoveries' = valid_discoveries + o.appended
           /\ \E held \in HeldWrites(o.writes, store.writes, env.held) :
                /\ store' = [store EXCEPT !.primary_ids = @ + o.primary_id,
                                          !.store_calls = @ + o.store_calls,
                                          !.writes = @ + o.writes,
                                          !.files = FilesAfter(@, o.writes, held),
                                          !.overwritten = @ + held]
                /\ env' = [env EXCEPT !.held = @ - held]
           /\ log' = [log EXCEPT !.storage_error = @ + o.storage_error,
                                 !.lost = @ + o.lost_log]
           /\ outcomes' = outcomes \cup {o}
           /\ use_neo4j' = (use_neo4j /\ ~(o.store_calls = 1 /\ o.primary_id = 0))
           /\ for_loop' = [for_loop EXCEPT
                             !.i = @ + 1,
                             !.events = @ \o CallsMade(o, index),
                             !.passes = Append(@, [index |-> index,
                                                   metal_analysis |-> result,
                                                   outcome |-> o])]
    /\ UNCHANGED <<dashboard, neo4j, memory_info, total_memory_gb, discovery_output_dir, primary_down,
                   running, sequences_per_cycle, batch_size, performance_metrics,
                   batch_sequences, pc, hist>>

\* one pass of the for loop   (lines 411-500)
validate_and_store_item ==
    /\ pc = "store"
    /\ for_loop.i < Len(for_loop.sequences)
    /\ LET index == EnumerateIndex(for_loop)
           o == ValidateAndStoreOne(ItemOf(for_loop.sequences[index]),
                                    use_neo4j, discovery_output_dir)
           result == IF o.item.len_ok
                     THEN PairedResult(index, for_loop.results) ELSE NoResult
       IN  /\ valid_discoveries' = valid_discoveries + o.appended
           /\ \E held \in HeldWrites(o.writes, store.writes, env.held) :
                /\ store' = [store EXCEPT !.primary_ids = @ + o.primary_id,
                                          !.store_calls = @ + o.store_calls,
                                          !.writes = @ + o.writes,
                                          !.files = FilesAfter(@, o.writes, held),
                                          !.overwritten = @ + held]
                /\ env' = [env EXCEPT !.held = @ - held]
           /\ log' = [log EXCEPT !.storage_error = @ + o.storage_error,
                                 !.lost = @ + o.lost_log]
           /\ outcomes' = outcomes \cup {o}
           /\ for_loop' = [for_loop EXCEPT
                             !.i = @ + 1,
                             !.events = @ \o CallsMade(o, index),
                             !.passes = Append(@, [index |-> index,
                                                   metal_analysis |-> result,
                                                   outcome |-> o])]
    /\ UNCHANGED <<dashboard, neo4j, memory_info, total_memory_gb, use_neo4j, discovery_output_dir, primary_down,
                   running, sequences_per_cycle, batch_size, performance_metrics,
                   batch_sequences, pc, hist>>

\* return valid_discoveries   (lines 502-505)
return_valid_discoveries ==
    /\ pc = "store"
    /\ for_loop.i = Len(for_loop.sequences)
    /\ hist' = [hist EXCEPT !.signalled_cycle =
                                IF @ \in {"monitor", "generate", "analyze", "store"}
                                THEN "stored" ELSE @]
    /\ pc' = "fold"
    /\ UNCHANGED <<dashboard, neo4j, for_loop, env, memory_info, total_memory_gb, use_neo4j, discovery_output_dir, primary_down,
                   running, sequences_per_cycle, batch_size, performance_metrics,
                   batch_sequences, valid_discoveries, outcomes, store, log>>

\* the steps of the loop (all but the asynchronous signal)
LoopStep ==
    \/ cycle_start
    \/ loop_exit
    \/ monitor_and_adjust_resources
    \/ generate_batch
    \/ metal_analysis
    \/ ultra_fast_validate_and_store
    \/ update_metrics
    \/ resource_query_raises
    \/ producer_raises
    \/ scorer_raises
    \/ cycle_except
    \/ generate_shutdown_report
    \/ close_primary

Next ==
    \/ signal_handler
    \/ cycle_start
    \/ loop_exit
    \/ monitor_and_adjust_resources
    \/ generate_batch
    \/ metal_analysis
    \/ ultra_fast_validate_and_store
    \/ update_metrics
    \/ resource_query_raises
    \/ producer_raises
    \/ scorer_raises
    \/ cycle_except
    \/ generate_shutdown_report
    \/ close_primary

Spec == Init /\ [][Next]_vars

\* runs disturbed by exceptions and signals only, the primary configured
FairInit ==
    InitIn({[faults |-> 0, raises |-> MaxRaises, signals |-> MaxSignals,
             readings |-> SteadyReadings, hosts |-> HostMemoryGB,
             held |-> 0, iterations |-> MaxIter, accelerator |-> TRUE]},
           {c \in Constructions : c.configured /\ c.available},
           InitialSequences)

\* every step of the loop terminates: the loop, once able to step, steps
FairSpec == FairInit /\ [][Next]_vars /\ WF_vars(LoopStep)

ItemNext ==
    \/ signal_handler
    \/ cycle_start
    \/ loop_exit
    \/ monitor_and_adjust_resources
    \/ generate_sequences
    \/ metal_analysis
    \/ validate_and_store_item
    \/ return_valid_discoveries
    \/ update_metrics
    \/ scorer_raises
    \/ cycle_except
    \/ generate_shutdown_report
    \/ close_primary

\* runs of small batches under steady memory, disturbed by deviating items
\* and one signal
ItemInit ==
    InitIn({[faults |-> MaxFaults, raises |-> 0, signals |-> 1,
             readings |-> SteadyReadings, hosts |-> SmallHosts,
             held |-> MaxHeld, iterations |-> MaxIter, accelerator |-> TRUE]},
           Constructions, 1..MaxBatch)

ItemSpec == ItemInit /\ [][ItemNext]_vars

---------------------------------------------------------------------------
\* Properties.

\* the positions of the calls of one kind among the storage calls of a record
CallsOf(o, kind) == {j \in DOMAIN o.calls : o.calls[j] = kind}

ExactlyOne(a, b, c) ==
    \/ a /\ ~b /\ ~c
    \/ ~a /\ b /\ ~c
    \/ ~a /\ ~b /\ c

\* C1: every record handed to storage ends with exactly one of: a primary
\* id, a fallback file written, an emitted "lost" log entry for the record.
C1_NoSilentLoss ==
    \A o \in outcomes :
        o.handed => ExactlyOne(o.primary_id = 1, o.writes >= 1, o.lost_log = 1)

\* C2: with the primary enabled, a record whose store call fails is written
\* to the fallback file store and is counted among the valid discoveries.
C2_PrimaryFailureFallsBack ==
    \A o \in outcomes :
        (use_neo4j /\ o.store_calls = 1 /\ o.primary_id = 0)
            => (o.writes >= 1 /\ o.appended = 1)

\* C3: from the default configuration the number of items the next cycle
\* draws stays within the bounds the autoscaler clamps to, in every state.
C3_ItemsWithinBounds ==
    hist.initial_sequences = DefaultSequencesPerCycle
        => (min_items <= sequences_per_cycle /\ sequences_per_cycle <= max_items)

\* C4: after a signal no new cycle starts, and a cycle that was in flight
\* when the signal came and did not itself raise was stored and folded by
\* the time the loop is left.
C4_SignalDrainsCycle ==
    /\ hist.starts_after_signal = 0
    /\ (RunState = "Stopped" /\ hist.signalled_cycle \notin {"none", "raised"})
           => hist.signalled_cycle = "folded"

C4_Witness ==
    /\ pc = "done"
    /\ hist.signalled_cycle = "folded"
    /\ performance_metrics.cycles_completed = hist.iterations

\* C5: however many signals are delivered, the loop is left once and the
\* shutdown report is emitted once.
C5_SingleShutdown ==
    /\ hist.loop_exits <= 1
    /\ log.reports <= 1
    /\ pc \in {"close", "done"} => (hist.loop_exits = 1 /\ log.reports = 1)

C5_Witness ==
    /\ pc = "done"
    /\ hist.signals >= 2
    /\ log.reports = 1

\* C6: once a signal has been delivered the run eventually is stopped, with
\* the final report emitted and, when the primary is enabled, closed.
C6_EventuallyStopped ==
    (hist.signals > 0)
        ~> (pc = "done" /\ log.reports = 1 /\ (use_neo4j => store.closed = 1))

C6_Witness ==
    /\ pc = "done"
    /\ hist.signals > 0
    /\ use_neo4j /\ store.closed = 1
    /\ log.cycle_error >= 1
    /\ performance_metrics.cycles_completed = 0

\* C7: no record has both a successful primary store and a fallback file.
C7_OneBackend ==
    \A o \in outcomes :
        o.handed => ~(o.primary_id = 1 /\ o.writes >= 1)

C7_Witness ==
    \E o \in outcomes :
        o.handed /\ o.primary_id = 1 /\ o.item.post = "raise" /\ o.write_calls = 1

C9_FallbackScenario ==
    ( /\ use_neo4j /\ primary_down
      /\ hist.initial_sequences = 10
      /\ performance_metrics.cycles_completed = 3
      /\ performance_metrics.sequences_processed = 30
      /\ store.store_calls = 30 )
        => /\ performance_metrics.valid_discoveries_found = 30
           /\ store.writes = 30
           /\ store.primary_ids = 0

\* C10: a decision taken above the high-pressure threshold with
\* items_per_cycle above min_items leaves items_per_cycle strictly smaller
\* and not below min_items.
C10_BackoffOnPressure ==
    ( /\ pc = "generate"
      /\ memory_info.percent > high_pressure_threshold
      /\ memory_info.sequences_before > min_items )
        => /\ sequences_per_cycle < memory_info.sequences_before
           /\ sequences_per_cycle >= min_items

\* C11: a decision taken below the low-pressure threshold with available
\* memory above the floor and items_per_cycle below max_items leaves
\* items_per_cycle strictly larger and not above max_items.
C11_ScaleUpOnSlack ==
    ( /\ pc = "generate"
      /\ memory_info.percent < low_pressure_threshold
      /\ memory_info.available > BeastAvailableFloorGB
      /\ memory_info.sequences_before < max_items )
        => /\ sequences_per_cycle > memory_info.sequences_before
           /\ sequences_per_cycle <= max_items

\* C12: the run state moves only Running -> Draining -> Stopped: the run flag,
\* once cleared, stays cleared, and once the loop is left no iteration
\* starts, nothing is stored and no metrics are folded.
C12_RunStateOneWay ==
    [][ /\ (~running => ~running')
        /\ (RunState = "Running" => RunState' # "Stopped")
        /\ (RunState = "Draining" => RunState' # "Running")
        /\ (RunState = "Stopped"
              => /\ RunState' = "Stopped"
                 /\ hist'.iterations = hist.iterations
                 /\ store'.store_calls = store.store_calls
                 /\ store'.primary_ids = store.primary_ids
                 /\ store'.writes = store.writes
                 /\ performance_metrics' = performance_metrics)
      ]_vars

C12_Witness ==
    /\ pc = "done"
    /\ hist.signals >= 2
    /\ hist.iterations >= 2
    /\ log.cycle_error >= 1
    /\ store.closed = 1

\* C13: when the primary is unavailable at construction (disabled, driver
\* missing, or its constructor raising) the run never calls the primary's
\* store, statistics or close, and every qualifying record is handed to the
\* fallback file store and written there unless the file writes raise.
C13_FallbackOnly ==
    ~(neo4j.configured /\ neo4j.available /\ neo4j.constructor = "ok")
        => /\ ~use_neo4j
           /\ store.store_calls = 0 /\ store.primary_ids = 0
           /\ store.stats_calls = 0 /\ store.closed = 0
           /\ \A o \in outcomes :
                  o.handed
                      => /\ o.store_calls = 0
                         /\ o.write_calls >= 1
                         /\ \/ o.writes >= 1 /\ o.appended = 1
                            \/ o.item.write1 = "raise" /\ o.item.write2 = "raise"

C13_Witness ==
    /\ neo4j.constructor = "raise"
    /\ pc = "done"
    /\ store.writes >= 2 * DefaultSequencesPerCycle
    /\ store.store_calls = 0 /\ store.closed = 0

\* C14: an iteration in which the resource query, the producer or the scorer
\* raises leaves valid_discoveries_found as it was when the iteration began.
C14_FailedCycleAddsNothing ==
    [][ /\ (pc' = "except")
              => performance_metrics'.valid_discoveries_found = hist'.found_before
        /\ (pc = "except")
              => /\ performance_metrics'.valid_discoveries_found
                        = performance_metrics.valid_discoveries_found
                 /\ hist'.found_before = hist.found_before
      ]_vars

C14_Witness ==
    /\ pc = "while"
    /\ hist.exception = "scorer"
    /\ hist.sleeps >= 1
    /\ hist.found_before > 0
    /\ performance_metrics.valid_discoveries_found = hist.found_before
    /\ performance_metrics.cycles_completed < hist.iterations

\* C15: in every step of a run (cycles that complete, cycles that raise,
\* signals) sequences_processed and cycles_completed do not decrease.
C15_CountersMonotonic ==
    [][ /\ performance_metrics'.sequences_processed
              >= performance_metrics.sequences_processed
        /\ performance_metrics'.cycles_completed
              >= performance_metrics.cycles_completed
      ]_vars

C15_Witness ==
    /\ pc = "done"
    /\ performance_metrics.cycles_completed = 2
    /\ performance_metrics.sequences_processed = 2 * hist.initial_sequences
    /\ log.cycle_error = 1
    /\ hist.signals >= 1

\* C16: a first cycle of 5 items of which exactly one throws during scoring
\* ends with 5 items counted, exactly 4 records persisted and counted valid,
\* and no cycle-level error logged.
C16_ScoringFaultDropsOneItem ==
    ( /\ pc = "while"
      /\ hist.iterations = 1
      /\ batch_sequences.n = 5
      /\ batch_sequences.faults["scoring_raises"] = 1
      /\ NumFaults(batch_sequences.faults) = 1 )
        => /\ performance_metrics.sequences_processed = 5
           /\ performance_metrics.valid_discoveries_found = 4
           /\ store.primary_ids + store.writes = 4
           /\ log.cycle_error = 0

\* C20: for one record the primary store is called at most once, and first;
\* when that call fails the next storage call for the record is the fallback
\* write, and no later call goes to the primary.
C20_NoPrimaryRetry ==
    \A o \in outcomes :
        /\ Cardinality(CallsOf(o, "primary")) <= 1
        /\ o.store_calls = Cardinality(CallsOf(o, "primary"))
        /\ CallsOf(o, "primary") \subseteq {1}
        /\ (o.store_calls = 1 /\ o.primary_id = 0)
              => /\ Len(o.calls) >= 2
                 /\ o.calls[2] = "file"

C20_Witness ==
    \E o \in outcomes :
        /\ o.item.primary = "raise"
        /\ o.calls = <<"primary", "file">>
        /\ o.primary_id = 0

\* C17: within a cycle the storage calls follow the order in which the items
\* were drawn; the metrics of a cycle are folded only after the last item of
\* its batch was handled, in a step that stores nothing, and the next cycle
\* starts only when every earlier cycle was folded or had raised.
C17_StoreAndFoldOrder ==
    [][ /\ \A a, b \in DOMAIN for_loop'.events :
              a < b => for_loop'.events[a].record <= for_loop'.events[b].record
        /\ (for_loop'.events # for_loop.events /\ for_loop'.events # <<>>)
              => /\ pc = "store"
                 /\ performance_metrics' = performance_metrics
        /\ (performance_metrics' # performance_metrics)
              => /\ pc = "fold"
                 /\ for_loop.i = Len(for_loop.sequences)
                 /\ for_loop.i = batch_sequences.n
                 /\ for_loop' = for_loop
                 /\ store'.store_calls = store.store_calls
                 /\ store'.primary_ids = store.primary_ids
                 /\ store'.writes = store.writes
                 /\ hist'.iterations = hist.iterations
        /\ (hist'.iterations # hist.iterations)
              => hist.iterations = performance_metrics.cycles_completed + hist.sleeps
      ]_vars

C17_Witness ==
    /\ pc = "while"
    /\ performance_metrics.cycles_completed = 2
    /\ Len(for_loop.events) >= 3
    /\ for_loop.events[1].record = 1
    /\ for_loop.events[Len(for_loop.events)].record = 3

\* C18: in every iteration _monitor_and_adjust_resources is called exactly
\* once, before anything is drawn, and the batch drawn has as many items as
\* sequences_per_cycle holds after that call.
C18_DecisionBeforeDraw ==
    /\ hist.decisions = hist.iterations - (IF pc = "monitor" THEN 1 ELSE 0)
    /\ pc \in {"monitor", "generate"} => batch_sequences.n = 0
    /\ pc \in {"analyze", "store", "fold"}
          => batch_sequences.n = sequences_per_cycle

C18_Witness ==
    /\ pc = "analyze"
    /\ hist.iterations = 2
    /\ hist.decisions = 2
    /\ sequences_per_cycle # memory_info.sequences_before
    /\ batch_sequences.n = sequences_per_cycle

\* C19: a decision taken with memory neither above the high-pressure
\* threshold nor (below the low-pressure threshold with available memory
\* above the floor) changes neither sequences_per_cycle nor batch_size and
\* logs nothing; a decision whose computed value equals the current one logs
\* nothing either.
C19_NoChangeNoLog ==
    pc = "generate"
        => LET changed == \/ sequences_per_cycle # memory_info.sequences_before
                          \/ batch_size # memory_info.batch_before
               high == memory_info.percent > high_pressure_threshold
               slack == /\ memory_info.percent < low_pressure_threshold
                        /\ available_above_floor(memory_info.available)
           IN  /\ (~high /\ ~slack) => (~changed /\ ~memory_info.logged)
               /\ ~changed => ~memory_info.logged

C19_Witness ==
    /\ pc = "generate"
    /\ total_memory_gb >= BeastModeMemoryGB
    /\ memory_info.percent > BeastHighPercent
    /\ memory_info.sequences_before = BeastMinSequences
    /\ sequences_per_cycle = BeastMinSequences
    /\ ~memory_info.logged

\* C21: a delivery of the signal clears the run flag and changes nothing
\* else: no setting, counter or backend, and no log entry is written.
C21_HandlerOnlySetsFlag ==
    [][ (hist'.signals # hist.signals)
            => /\ running' = FALSE
               /\ log' = log
               /\ store' = store
               /\ performance_metrics' = performance_metrics
               /\ sequences_per_cycle' = sequences_per_cycle
               /\ batch_size' = batch_size
               /\ pc' = pc
      ]_vars

\* C22: every successful fallback write of the process has a file of its
\* own: as many files are on disk as writes succeeded, and no write has
\* replaced the file of an earlier record.
C22_DistinctFiles ==
    /\ store.files = store.writes
    /\ store.overwritten = 0

---------------------------------------------------------------------------
\* _ultra_fast_validate_and_store as a function of its two arguments: the
\* call is entered with any batch and any list of individual results.

\* the batches of at most MaxBatch sequences, at most MaxFaults deviating
ArgumentSequences ==
    { seq \in UNION { [1..n -> SequenceKinds] : n \in 0..MaxBatch } :
          NumFaults(FaultsIn(seq)) <= MaxFaults }

\* the call with its arguments bound   (lines 403-409)
call_validate_and_store ==
    /\ pc = "call"
    /\ \E seq \in ArgumentSequences :
         \E results \in 0..(Len(seq) + 1) :
            /\ batch_sequences' = [n |-> Len(seq), faults |-> FaultsIn(seq)]
            /\ for_loop' = [NoLoop EXCEPT !.sequences = seq, !.results = results]
    /\ pc' = "store"
    /\ UNCHANGED <<dashboard, neo4j, env, memory_info, total_memory_gb, use_neo4j,
                   discovery_output_dir, primary_down, running, sequences_per_cycle,
                   batch_size, performance_metrics, valid_discoveries, outcomes,
                   store, log, hist>>

StoreCallNext ==
    \/ call_validate_and_store
    \/ validate_and_store_item
    \/ return_valid_discoveries

StoreCallInit ==
    /\ EngineInit("call",
                  {[faults |-> 0, raises |-> 0, signals |-> 0,
                    readings |-> SteadyReadings, hosts |-> SmallHosts,
                    held |-> 0, iterations |-> 0, accelerator |-> TRUE]},
                  Constructions, {MaxBatch})
    /\ dashboard = NoDashboard

StoreCallSpec == StoreCallInit /\ [][StoreCallNext]_vars

\* C23: the item of pass i is the i-th item and a qualifying item is paired
\* with result i, or with the default result when the list of results ends
\* before i; such an item is handed to storage like any other, and the call
\* returns after a pass for every item.
C23_DefaultForMissingResult ==
    /\ \A j \in DOMAIN for_loop.passes :
          LET p == for_loop.passes[j]
          IN  /\ p.index = j
              /\ p.outcome.item = ItemOf(for_loop.sequences[j])
              /\ p.outcome.item.len_ok
                    => p.metal_analysis =
                          IF j <= for_loop.results
                          THEN IndividualResult(j) ELSE DefaultResult
              /\ (j > for_loop.results /\ p.outcome.item.len_ok
                                       /\ p.outcome.item.ctx = "ok")
                    => /\ p.metal_analysis.vqbit_score = "0.5"
                       /\ p.metal_analysis.energy = "-300.0"
                       /\ p.outcome.handed
                       /\ p.outcome.store_calls + p.outcome.write_calls >= 1
    /\ pc = "fold" => Len(for_loop.passes) = Len(for_loop.sequences)

C23_Witness ==
    /\ pc = "fold"
    /\ for_loop.results = 1
    /\ Len(for_loop.sequences) = 3
    /\ \A j \in 2..3 :
          /\ for_loop.passes[j].metal_analysis = DefaultResult
          /\ for_loop.passes[j].outcome.appended = 1
    /\ valid_discoveries = 3

\* C24: an item that fails the length test causes no storage call, no log
\* entry and no record, and only items that pass it become records; the item
\* is counted among the sequences processed all the same, and the valid
\* discoveries never exceed the sequences processed.
C24_OnlyQualifyingBecomeRecords ==
    /\ \A o \in outcomes :
          /\ ~o.item.len_ok
                => /\ ~o.handed
                   /\ o.store_calls = 0 /\ o.write_calls = 0
                   /\ o.storage_error = 0 /\ o.debug_calls = 0 /\ o.lost_log = 0
                   /\ o.appended = 0
          /\ o.appended = 1 => o.item.len_ok
    /\ pc = "fold"
          => valid_discoveries <= batch_sequences.n - batch_sequences.faults["bad_length"]
    /\ total_memory_gb < BeastModeMemoryGB
          => performance_metrics.sequences_processed
                = performance_metrics.cycles_completed * hist.initial_sequences
    /\ performance_metrics.valid_discoveries_found
          <= performance_metrics.sequences_processed

C24_Witness ==
    /\ pc = "while"
    /\ performance_metrics.cycles_completed = 1
    /\ batch_sequences.faults["bad_length"] = 1
    /\ performance_metrics.sequences_processed = batch_sequences.n
    /\ performance_metrics.valid_discoveries_found = batch_sequences.n - 1
    /\ log.storage_error = 0 /\ log.lost = 0

---------------------------------------------------------------------------
\* The loop followed over enough iterations for the progress log to come up
\* twice: one size of batch, no deviating items, one exception, one signal.

ProgressInit ==
    InitIn({[faults |-> 0, raises |-> 1, signals |-> 1,
             readings |-> SteadyReadings, hosts |-> SmallHosts,
             held |-> 0, iterations |-> MaxCycles, accelerator |-> TRUE]},
           Constructions, {5})

ProgressSpec == ProgressInit /\ [][Next]_vars

\* C25: the progress reports emitted are as many as the positive multiples of
\* 5 that cycles_completed has reached (a cycle that raised reaches none);
\* the shutdown report is emitted at most once, and once by the time the run
\* is over, whatever the number of completed cycles.
C25_ProgressEveryK ==
    /\ log.progress = performance_metrics.cycles_completed \div ProgressEvery
    /\ log.reports <= 1
    /\ pc \in {"close", "done"} => log.reports = 1
    /\ pc \notin {"close", "done"} => log.reports = 0

C25_Witness ==
    /\ pc = "done"
    /\ performance_metrics.cycles_completed = 2 * ProgressEvery
    /\ hist.iterations = 2 * ProgressEvery + 1
    /\ log.cycle_error = 1
    /\ log.progress = 2
    /\ log.reports = 1

---------------------------------------------------------------------------
\* main: the configuration and the engine are constructed, then the loop is
\* run   (lines 890-925)

\* config = M4Neo4jConfig(): __post_init__ raises RuntimeError when torch
\* reports no MPS device; the statement stands before the try block of main,
\* so the exception leaves main   (lines 59-62, 893, 916-925)
main_config ==
    /\ pc = "main"
    /\ pc' = IF env.accelerator THEN "while" ELSE "halted"
    /\ UNCHANGED <<dashboard, neo4j, for_loop, env, memory_info, total_memory_gb,
                   use_neo4j, discovery_output_dir, primary_down, running,
                   sequences_per_cycle, batch_size, performance_metrics,
                   batch_sequences, valid_discoveries, outcomes, store, log, hist>>

MainNext ==
    \/ main_config
    \/ Next

\* a process started on a host with or without the accelerator
MainInit ==
    /\ EngineInit("main",
                  { [faults |-> 0, raises |-> 1, signals |-> 1,
                     readings |-> SteadyReadings, hosts |-> SmallHosts,
                     held |-> 0, iterations |-> MaxIter, accelerator |-> a] :
                        a \in BOOLEAN },
                  Constructions, InitialSequences)
    /\ dashboard = NoDashboard

MainSpec == MainInit /\ [][MainNext]_vars

\* C26: a process that halted because the accelerator is absent has emitted
\* the shutdown report.
C26_ReportOnFatalStartup ==
    pc = "halted" => log.reports >= 1

\* C27: a record is counted among the valid discoveries exactly when a write
\* of it succeeded on some backend, and then once: the discoveries found are
\* never more than the records written.
C27_CountedIffWritten ==
    /\ \A o \in outcomes :
          /\ o.appended <= 1
          /\ o.appended = 1 <=> (o.primary_id = 1 \/ o.writes >= 1)
    /\ pc = "fold" => valid_discoveries <= store.primary_ids + store.writes

---------------------------------------------------------------------------
\* The autoscaler followed over long runs: memory readings alternate freely
\* between pressure and slack, nothing else disturbs the run.  The setting
\* of a host of 100 GB and more needs few decisions to cross its range, the
\* setting of a smaller host many.

\* one reading above both high thresholds, one below both low thresholds
\* with available memory above the floor
PressureOrSlack ==
    {r \in Readings : r.available = 50 /\ r.percent \in {95, 50}}

ScaleNext ==
    \/ cycle_start
    \/ monitor_and_adjust_resources
    \/ generate_batch
    \/ metal_analysis
    \/ ultra_fast_validate_and_store
    \/ update_metrics

ScaleInit ==
    InitIn({ [faults |-> 0, raises |-> 0, signals |-> 0,
              readings |-> PressureOrSlack, hosts |-> SmallHosts,
              held |-> 0, iterations |-> MaxDecisions, accelerator |-> TRUE],
             [faults |-> 0, raises |-> 0, signals |-> 0,
              readings |-> PressureOrSlack, hosts |-> HostMemoryGB \ SmallHosts,
              held |-> 0, iterations |-> MaxCycles, accelerator |-> TRUE] },
           {c \in Constructions : c.constructor = "ok"},
           InitialSequences)

ScaleSpec == ScaleInit /\ [][ScaleNext]_vars

\* the setting the autoscaler adjusts on this host, and its upper bound
adjusted_setting ==
    IF total_memory_gb >= BeastModeMemoryGB THEN sequences_per_cycle ELSE batch_size

adjusted_before ==
    IF total_memory_gb >= BeastModeMemoryGB
    THEN memory_info.sequences_before ELSE memory_info.batch_before

\* C28: a decision taken under slack leaves the adjusted setting at its upper
\* bound or strictly larger than it was, so that sustained slack brings it to
\* the upper bound from any value, the lower bound included.
C28_SlackReachesUpperBound ==
    ( /\ pc = "generate"
      /\ memory_info.percent < low_pressure_threshold
      /\ available_above_floor(memory_info.available) )
        => \/ adjusted_setting = max_items
           \/ adjusted_setting > adjusted_before

\* C29: use_neo4j keeps the value construction gave it, and with the primary
\* enabled every record handed to storage calls the primary first, whatever
\* became of the records before it.
C29_PrimaryStaysEnabled ==
    [][ /\ use_neo4j' = use_neo4j
        /\ use_neo4j' = UseNeo4j(neo4j')
        /\ (for_loop'.i = for_loop.i + 1 /\ UseNeo4j(neo4j))
              => LET o == for_loop'.passes[for_loop'.i].outcome
                 IN  o.handed => (o.store_calls = 1 /\ o.calls[1] = "primary")
      ]_vars

C29_Witness ==
    /\ use_neo4j
    /\ Len(for_loop.passes) >= 2
    /\ LET first == for_loop.passes[1].outcome
           second == for_loop.passes[2].outcome
       IN  /\ first.store_calls = 1 /\ first.primary_id = 0
           /\ first.storage_error = 1
           /\ second.handed /\ second.calls[1] = "primary"
    /\ hist.iterations >= 2

---------------------------------------------------------------------------
\* load_chunked_data of streamlit_app.py, in the first data directory that
\* holds a chunk_index.json   (lines 89-149)

\* what the loader finds under a name listed in chunk_index.json: a readable
\* chunk file with proteins or with none, no file, or a file that gzip or
\* json cannot read
ChunkStates == {"ok", "empty", "missing", "unreadable"}

\* the chunk_files lists an index may hold
ChunkFileLists == UNION { [1..n -> ChunkStates] : n \in 0..MaxChunks }

\* the proteins the k-th listed chunk was written with
ChunkData(k) == <<[chunk |-> k, row |-> 1], [chunk |-> k, row |-> 2]>>

\* json.load of the k-th chunk file, when it can be read   (lines 126-127)
ChunkRead(k, state) == IF state = "empty" THEN <<>> ELSE ChunkData(k)

\* sidebar messages of the loader   (lines 107, 140, 141, 146, 149)
LOADING == "Loading CHUNKED dataset (all discoveries preserved)"
COMPLETE == "Loaded COMPLETE CHUNKED dataset"
NO_DATA_LOSS == "NO DATA LOSS - All discoveries preserved"
NO_DATA == "No protein data found in chunks"
INDEX_ERROR == "Error loading chunked dataset"

PROGRESS_EVERY == 5

\* the index is opened and parsed; all_proteins = [], chunks_loaded = 0
\* (lines 105-120)
load_chunk_index ==
    /\ dashboard.pc = "idle"
    /\ \E index \in {"ok", "unreadable"} :
         \E files \in ChunkFileLists :
            dashboard' =
                IF index = "ok"
                THEN [NoDashboard EXCEPT !.pc = "chunks", !.chunk_files = files,
                                         !.messages = {LOADING}]
                ELSE [NoDashboard EXCEPT !.pc = "fallbacks",
                                         !.messages = {LOADING, INDEX_ERROR}]
    /\ UNCHANGED <<neo4j, for_loop, env, memory_info, total_memory_gb, use_neo4j,
                   discovery_output_dir, primary_down, running, sequences_per_cycle,
                   batch_size, performance_metrics, pc, batch_sequences,
                   valid_discoveries, outcomes, store, log, hist>>

\* one pass of for chunk_file in chunk_files   (lines 122-135)
AfterChunk(d, k, state) ==
    IF state = "missing"
    THEN [d EXCEPT !.next = k + 1]
    ELSE IF state = "unreadable"
         THEN [d EXCEPT !.next = k + 1, !.warnings = @ + 1]
         ELSE [d EXCEPT !.next = k + 1,
                        !.all_proteins = @ \o ChunkRead(k, state),
                        !.chunks_loaded = @ + 1,
                        !.progress = IF (d.chunks_loaded + 1) % PROGRESS_EVERY = 0
                                     THEN @ + 1 ELSE @]

load_chunk ==
    /\ dashboard.pc = "chunks"
    /\ dashboard.next <= Len(dashboard.chunk_files)
    /\ dashboard' = AfterChunk(dashboard, dashboard.next,
                               dashboard.chunk_files[dashboard.next])
    /\ UNCHANGED <<neo4j, for_loop, env, memory_info, total_memory_gb, use_neo4j,
                   discovery_output_dir, primary_down, running, sequences_per_cycle,
                   batch_size, performance_metrics, pc, batch_sequences,
                   valid_discoveries, outcomes, store, log, hist>>

\* if all_proteins: the success messages and the return; else the error and
\* on to the other datasets   (lines 137-146)
finish_chunks ==
    /\ dashboard.pc = "chunks"
    /\ dashboard.next > Len(dashboard.chunk_files)
    /\ dashboard' =
         IF dashboard.all_proteins # <<>>
         THEN [dashboard EXCEPT !.pc = "returned",
                                !.messages = @ \cup {COMPLETE, NO_DATA_LOSS}]
         ELSE [dashboard EXCEPT !.pc = "fallbacks",
                                !.messages = @ \cup {NO_DATA}]
    /\ UNCHANGED <<neo4j, for_loop, env, memory_info, total_memory_gb, use_neo4j,
                   discovery_output_dir, primary_down, running, sequences_per_cycle,
                   batch_size, performance_metrics, pc, batch_sequences,
                   valid_discoveries, outcomes, store, log, hist>>

ChunkNext ==
    \/ load_chunk_index
    \/ load_chunk
    \/ finish_chunks

\* the dashboard started; the discovery engine is not part of its process
ChunkInit ==
    /\ EngineInit("main",
                  {[faults |-> 0, raises |-> 0, signals |-> 0,
                    readings |-> SteadyReadings, hosts |-> SmallHosts,
                    held |-> 0, iterations |-> 0, accelerator |-> TRUE]},
                  {c \in Constructions : ~c.configured},
                  {DefaultSequencesPerCycle})
    /\ dashboard = NoDashboard

ChunkSpec == ChunkInit /\ [][ChunkNext]_vars

\* the proteins of the first n listed chunks, in index order
RECURSIVE ListedProteins(_, _)
ListedProteins(files, n) ==
    IF n = 0 THEN <<>>
    ELSE ListedProteins(files, n - 1) \o ChunkRead(n, files[n])

\* C30: when the loader has returned the chunked dataset under the messages
\* COMPLETE and NO DATA LOSS, every listed chunk was loaded and the proteins
\* returned are those of all listed chunks in index order.
C30_CompleteMeansAllChunks ==
    (dashboard.pc = "returned" /\ {COMPLETE, NO_DATA_LOSS} \subseteq dashboard.messages)
        => /\ dashboard.chunks_loaded = Len(dashboard.chunk_files)
           /\ dashboard.warnings = 0
           /\ dashboard.all_proteins =
                 ListedProteins(dashboard.chunk_files, Len(dashboard.chunk_files))

====
